---- MODULE Spec2Model ----
(***************************************************************************)
(* Model of the KPI aggregation Processor                                   *)
(* (backend/business/kpis/processor.py).                                    *)
(*                                                                          *)
(* A Period is modelled as the number of whole hours since                  *)
(* 1970-01-01T00:00 (proleptic Gregorian calendar, naive datetimes read as  *)
(* UTC).  Bucket labels are modelled as integers that keep the digits of    *)
(* the formatted label: day 2024-03-15 -> 20240315, ISO week 2024 W11 ->    *)
(* 202411, month 2024-03 -> 202403, year 2024 -> 2024.                      *)
(* Timestamps are integer seconds since the epoch, as int(dt.timestamp()).  *)
(***************************************************************************)
EXTENDS Integers, Sequences, FiniteSets, TLC

(***************************************************************************)
(* Calendar arithmetic (datetime / relativedelta / Period)                  *)
(***************************************************************************)

IsLeap(y) == (y % 4 = 0 /\ y % 100 # 0) \/ (y % 400 = 0)

DaysInMonth(y, m) ==
    IF m = 2 THEN (IF IsLeap(y) THEN 29 ELSE 28)
    ELSE IF m \in {4, 6, 9, 11} THEN 30 ELSE 31

\* day of the year (0-based, the year starting on March 1) of month m, day d
DayOfMarchYear(m, d) == (153 * (IF m > 2 THEN m - 3 ELSE m + 9) + 2) \div 5 + d - 1

\* days from 1970-01-01 to day doy of the March-based year yy
DaysFromMarchYear(yy, doy) ==
    (yy \div 400) * 146097
    + (yy % 400) * 365 + (yy % 400) \div 4 - (yy % 400) \div 100 + doy - 719468

\* datetime(y, m, d): number of days from 1970-01-01 to the civil date y-m-d
DaysFromCivil(y, m, d) ==
    DaysFromMarchYear(IF m <= 2 THEN y - 1 ELSE y, DayOfMarchYear(m, d))

\* civil date of day doy of the March-based year yoe of the 400-year era
CivilOfMonth(era, yoe, doy, mp) ==
    [year  |-> yoe + era * 400 + (IF mp < 10 THEN 0 ELSE 1),
     month |-> IF mp < 10 THEN mp + 3 ELSE mp - 9,
     day   |-> doy - (153 * mp + 2) \div 5 + 1]

CivilOfDay(era, yoe, doy) == CivilOfMonth(era, yoe, doy, (5 * doy + 2) \div 153)

CivilOfYear(era, doe, yoe) ==
    CivilOfDay(era, yoe, doe - (365 * yoe + yoe \div 4 - yoe \div 100))

CivilOfEra(era, doe) ==
    CivilOfYear(era, doe,
                (doe - doe \div 1460 + doe \div 36524 - doe \div 146096) \div 365)

\* civil date [year, month, day] of the day number z (days since 1970-01-01)
CivilFromDays(z) == CivilOfEra((z + 719468) \div 146097, (z + 719468) % 146097)

\* Period(datetime(y, m, d, h))
PeriodOf(y, m, d, h) == DaysFromCivil(y, m, d) * 24 + h

DayNumber(p) == p \div 24

\* the fields a Period exposes: year, month, day, hour and weekday
PeriodYear(p)  == CivilFromDays(DayNumber(p)).year
PeriodMonth(p) == CivilFromDays(DayNumber(p)).month
PeriodDay(p)   == CivilFromDays(DayNumber(p)).day
PeriodHour(p)  == p % 24

\* Monday-based weekday, Monday = 1 .. Sunday = 7 (1970-01-01 was a Thursday)
PeriodWeekday(p) == ((DayNumber(p) + 3) % 7) + 1

\* ISO-8601 week label of the week whose Thursday is the day number thursday,
\* which lies in the year ty
IsoWeekOfThursday(thursday, ty) ==
    ty * 100 + ((thursday - DaysFromCivil(ty, 1, 1)) \div 7 + 1)

\* ISO-8601 week of the day number z: the week belongs to the year of its
\* Thursday
IsoWeekOfDay(thursday) == IsoWeekOfThursday(thursday, CivilFromDays(thursday).year)

IsoWeekLabel(p) == IsoWeekOfDay(DayNumber(p) - (PeriodWeekday(p) - 1) + 3)

Granularities == {"D", "W", "M", "Y"}

\* the label of the bucket of kind agg_kind holding period p, whose civil
\* date is c
LabelOf(p, c, agg_kind) ==
    CASE agg_kind = "D" -> c.year * 10000 + c.month * 100 + c.day
      [] agg_kind = "W" -> IsoWeekLabel(p)
      [] agg_kind = "M" -> c.year * 100 + c.month
      [] agg_kind = "Y" -> c.year
      [] OTHER -> 0    \* no label: the kind is none of D, W, M, Y

\* Period.get_truncated_value(agg_kind)
get_truncated_value(p, agg_kind) == LabelOf(p, CivilFromDays(DayNumber(p)), agg_kind)

\* Period.get_shifted(relativedelta(days=-delta))
ShiftDays(p, delta) == p - 24 * delta

\* Period.get_shifted(relativedelta(weeks=-delta))
ShiftWeeks(p, delta) == p - 168 * delta

\* the period at hour h of day d of month index mi (= 12 * year + month - 1),
\* the day clamped to the length of that month
ClampedPeriod(mi, d, h) ==
    PeriodOf(mi \div 12, (mi % 12) + 1,
             IF d > DaysInMonth(mi \div 12, (mi % 12) + 1)
             THEN DaysInMonth(mi \div 12, (mi % 12) + 1) ELSE d,
             h)

ShiftCivilMonths(c, h, delta) ==
    ClampedPeriod(c.year * 12 + (c.month - 1) - delta, c.day, h)

\* Period.get_shifted(relativedelta(months=-delta)): same day of month,
\* clamped to the length of the target month
ShiftMonths(p, delta) == ShiftCivilMonths(CivilFromDays(DayNumber(p)), PeriodHour(p), delta)

(***************************************************************************)
(* Bounds of the model and program constants                                *)
(***************************************************************************)

\* number of tracked KPIs (Processor.kpis is filled by the caller)
NumKpis == 2

\* number of raw events the ingestion side may record during a run
MaxEvents == 1

\* retention horizons of get_aggregations_to_keep
DailyKeep == 7
WeeklyKeep == 4
MonthlyKeep == 12

KpiIds == 1 .. NumKpis

\* the periods the clock source hands to on_tick in Spec
TickPeriods ==
    { PeriodOf(2023, 11, 30, 22), PeriodOf(2023, 11, 30, 23),
      PeriodOf(2023, 12, 1, 0),   PeriodOf(2024, 1, 1, 0),
      PeriodOf(2024, 1, 10, 0),   PeriodOf(2024, 2, 12, 0),
      PeriodOf(2025, 1, 15, 0) }

\* the periods handed to on_tick, in any order, in SpecAnyOrder
AnyPeriods ==
    { PeriodOf(2024, 1, 1, 23), PeriodOf(2024, 1, 2, 0),
      PeriodOf(2024, 1, 10, 0), PeriodOf(2024, 2, 12, 0) }

\* the hourly clock of SpecHourly runs from one of HourlyStarts to HourlyEnd
HourlyStarts == { PeriodOf(2023, 11, 29, 23), PeriodOf(2023, 11, 30, 0) }

HourlyEnd == PeriodOf(2023, 12, 3, 0)

\* the reference periods of SpecCalls: one per day of the week, among them
\* the last hours of a year, a leap day and two days of December
CallPeriods ==
    { PeriodOf(2023, 12, 30, 5),  PeriodOf(2023, 12, 31, 23),
      PeriodOf(2024, 1, 1, 0),    PeriodOf(2024, 2, 28, 12),
      PeriodOf(2024, 2, 29, 10),  PeriodOf(2024, 3, 15, 14),
      PeriodOf(2024, 12, 31, 23) }

\* the periods of SpecDense: eight consecutive days, then four more Mondays
DensePeriods ==
    { PeriodOf(2024, 1, d, 0) : d \in 1 .. 8 }
        \cup { PeriodOf(2024, 1, 15, 0), PeriodOf(2024, 1, 22, 0),
               PeriodOf(2024, 1, 29, 0), PeriodOf(2024, 2, 5, 0) }

\* every period the specifications hand to the processor
KnownPeriods ==
    TickPeriods \cup AnyPeriods \cup CallPeriods \cup DensePeriods
        \cup (PeriodOf(2023, 11, 29, 23) .. HourlyEnd)

\* the aggregation kinds handed to the class methods in SpecCalls: the four
\* supported ones and an unsupported one
AnyKinds == Granularities \cup {"H"}

\* Persister.get_last_current_period() returns None when no marker is stored
NoPeriod == -1

Range(seq) == {seq[i] : i \in 1 .. Len(seq)}

(***************************************************************************)
(* External collaborators: KPI computation and the persistence layer        *)
(***************************************************************************)

\* Kpi.get_value: a pure function of the raw events inside [start_ts, stop_ts);
\* raw is the set of hours at which an event was recorded
get_value(kpi, agg_kind, start_ts, stop_ts, raw) ==
    kpi * Cardinality({e \in raw : start_ts <= e * 3600 /\ e * 3600 < stop_ts})

\* Persister.delete_kpi_value: removes the rows keyed by agg_value
delete_kpi_value(rows, agg_value) ==
    SelectSeq(rows, LAMBDA r : r.agg_value # agg_value)

\* Persister.update_kpi_value: sets kpi_value of the rows keyed by agg_value
update_kpi_value(rows, agg_value, kpi_value) ==
    [i \in 1 .. Len(rows) |->
        IF rows[i].agg_value = agg_value
        THEN [agg_value |-> agg_value, kpi_value |-> kpi_value]
        ELSE rows[i]]

\* Persister.add_kpi_value: inserts a row
add_kpi_value(rows, agg_value, kpi_value) ==
    Append(rows, [agg_value |-> agg_value, kpi_value |-> kpi_value])

(***************************************************************************)
(* Processor: retention resolver and window resolver                        *)
(***************************************************************************)

\* mutant of get_aggregations_to_keep: the deltas run from 1, so the label
\* of now itself is not in the list
get_aggregations_to_keep_FromOne(agg_kind, now) ==
    CASE agg_kind = "D" ->
            [raised |-> FALSE, none |-> FALSE,
             labels |-> [i \in 1 .. DailyKeep |->
                            get_truncated_value(ShiftDays(now, i), "D")]]
      [] agg_kind = "W" ->
            [raised |-> FALSE, none |-> FALSE,
             labels |-> [i \in 1 .. WeeklyKeep |->
                            get_truncated_value(ShiftWeeks(now, i), "W")]]
      [] agg_kind = "M" ->
            [raised |-> FALSE, none |-> FALSE,
             labels |-> [i \in 1 .. MonthlyKeep |->
                            get_truncated_value(ShiftMonths(now, i), "M")]]
      [] agg_kind = "Y" ->
            [raised |-> FALSE, none |-> TRUE, labels |-> <<>>]
      [] OTHER ->
            [raised |-> TRUE, none |-> FALSE, labels |-> <<>>]

\* mutant of get_aggregations_to_keep: a kind that is none of D, W, M is
\* answered like Y, with None
get_aggregations_to_keep_ElseNone(agg_kind, now) ==
    CASE agg_kind = "D" ->
            [raised |-> FALSE, none |-> FALSE,
             labels |-> [i \in 1 .. DailyKeep |->
                            get_truncated_value(ShiftDays(now, i - 1), "D")]]
      [] agg_kind = "W" ->
            [raised |-> FALSE, none |-> FALSE,
             labels |-> [i \in 1 .. WeeklyKeep |->
                            get_truncated_value(ShiftWeeks(now, i - 1), "W")]]
      [] agg_kind = "M" ->
            [raised |-> FALSE, none |-> FALSE,
             labels |-> [i \in 1 .. MonthlyKeep |->
                            get_truncated_value(ShiftMonths(now, i - 1), "M")]]
      [] OTHER ->
            [raised |-> FALSE, none |-> TRUE, labels |-> <<>>]

\* Processor.get_aggregations_to_keep: raised is AttributeError, none is the
\* special value None ("all values are kept"), labels the returned list
get_aggregations_to_keep(agg_kind, now) ==
    CASE agg_kind = "D" ->
            [raised |-> FALSE, none |-> FALSE,
             labels |-> [i \in 1 .. DailyKeep |->
                            get_truncated_value(ShiftDays(now, i - 1), "D")]]
      [] agg_kind = "W" ->
            [raised |-> FALSE, none |-> FALSE,
             labels |-> [i \in 1 .. WeeklyKeep |->
                            get_truncated_value(ShiftWeeks(now, i - 1), "W")]]
      [] agg_kind = "M" ->
            [raised |-> FALSE, none |-> FALSE,
             labels |-> [i \in 1 .. MonthlyKeep |->
                            get_truncated_value(ShiftMonths(now, i - 1), "M")]]
      [] agg_kind = "Y" ->
            [raised |-> FALSE, none |-> TRUE, labels |-> <<>>]
      [] OTHER ->
            [raised |-> TRUE, none |-> FALSE, labels |-> <<>>]

\* lines 148-153: the Daily window of the day number today
DailyWindow(today) ==
    [raised |-> FALSE,
     start |-> today * 86400,
     stop  |-> (today + 1) * 86400]

\* mutant of WeeklyWindow: the weekday is taken to count from 0
WeeklyWindow_FromZero(today, weekday) ==
    [raised |-> FALSE,
     start |-> (today - weekday) * 86400,
     stop  |-> (today - weekday + 7) * 86400]

\* lines 154-161: the Weekly window, timedelta(days=1 - now.weekday)
WeeklyWindow(today, weekday) ==
    [raised |-> FALSE,
     start |-> (today + (1 - weekday)) * 86400,
     stop  |-> (today + (1 - weekday) + 7) * 86400]

\* lines 162-168: the Monthly window; datetime(year, month + 1, 1) raises
\* ValueError when month + 1 is not a month
MonthlyWindow(c) ==
    IF c.month + 1 \in 1 .. 12
    THEN [raised |-> FALSE,
          start |-> DaysFromCivil(c.year, c.month, 1) * 86400,
          stop  |-> DaysFromCivil(c.year, c.month + 1, 1) * 86400]
    ELSE [raised |-> TRUE, start |-> 0, stop |-> 0]

\* mutant of YearlyWindow: the window stops at December 31 of the same year
YearlyWindow_SameYear(c) ==
    [raised |-> FALSE,
     start |-> DaysFromCivil(c.year, 1, 1) * 86400,
     stop  |-> DaysFromCivil(c.year, 12, 31) * 86400]

\* lines 169-175: the Yearly window
YearlyWindow(c) ==
    [raised |-> FALSE,
     start |-> DaysFromCivil(c.year, 1, 1) * 86400,
     stop  |-> DaysFromCivil(c.year + 1, 1, 1) * 86400]

\* the window of kind agg_kind for a reference period of civil date c, day
\* number today and weekday weekday; raised: the resolver ended with an
\* exception (AttributeError for an unknown kind, the ValueError of
\* datetime(year, month + 1, 1) when month + 1 is not a month)
WindowOf(agg_kind, c, today, weekday) ==
    CASE agg_kind = "D" -> DailyWindow(today)
      [] agg_kind = "W" -> WeeklyWindow(today, weekday)
      [] agg_kind = "M" -> MonthlyWindow(c)
      [] agg_kind = "Y" -> YearlyWindow(c)
      [] OTHER -> [raised |-> TRUE, start |-> 0, stop |-> 0]

\* Processor.get_timestamps
get_timestamps(agg_kind, now) ==
    WindowOf(agg_kind, CivilFromDays(DayNumber(now)), DayNumber(now), PeriodWeekday(now))

(***************************************************************************)
(* Processor: recompute-and-prune                                           *)
(***************************************************************************)

\* mutant of IsStale: the "aggregations_to_keep and" guard is missing, so the
\* keep-all value None is read as "keep nothing"
IsStale_NoKeepAll(value, keep) == value.agg_value \notin Range(keep.labels)

\* mutant of IsStale: no value is ever found old
IsStale_Never(value, keep) == FALSE

\* "if aggregations_to_keep and value.agg_value not in aggregations_to_keep"
IsStale(value, keep) ==
    (~keep.none /\ Len(keep.labels) > 0) /\ value.agg_value \notin Range(keep.labels)

\* mutant of UpdateIfCurrent: the existing value is marked as updated but its
\* kpi_value is not written
UpdateIfCurrent_ValueKept(acc, rows, stale, value, current_agg_value, kpi_value) ==
    [rows          |-> rows,
     value_updated |-> acc.value_updated \/ value.agg_value = current_agg_value,
     updates       |-> acc.updates + (IF value.agg_value = current_agg_value THEN 1 ELSE 0),
     deletes       |-> acc.deletes + (IF stale THEN 1 ELSE 0)]

\* mutant of UpdateIfCurrent: value_updated is not set after the update
UpdateIfCurrent_FlagNotSet(acc, rows, stale, value, current_agg_value, kpi_value) ==
    [rows          |-> IF value.agg_value = current_agg_value
                       THEN update_kpi_value(rows, value.agg_value, kpi_value)
                       ELSE rows,
     value_updated |-> acc.value_updated,
     updates       |-> acc.updates + (IF value.agg_value = current_agg_value THEN 1 ELSE 0),
     deletes       |-> acc.deletes + (IF stale THEN 1 ELSE 0)]

\* the second "if" of the loop body, on the rows left by the first
UpdateIfCurrent(acc, rows, stale, value, current_agg_value, kpi_value) ==
    IF value.agg_value = current_agg_value
    THEN [rows          |-> update_kpi_value(rows, value.agg_value, kpi_value),
          value_updated |-> TRUE,
          updates       |-> acc.updates + 1,
          deletes       |-> acc.deletes + (IF stale THEN 1 ELSE 0)]
    ELSE [rows          |-> rows,
          value_updated |-> acc.value_updated,
          updates       |-> acc.updates,
          deletes       |-> acc.deletes + (IF stale THEN 1 ELSE 0)]

\* mutant of DeleteIfStale: an old KPI value is counted but not deleted
DeleteIfStale_NotDeleted(acc, stale, value, current_agg_value, kpi_value) ==
    UpdateIfCurrent(acc, acc.rows, stale, value, current_agg_value, kpi_value)

\* the first "if" of the loop body: delete an old KPI value
DeleteIfStale(acc, stale, value, current_agg_value, kpi_value) ==
    UpdateIfCurrent(acc,
                    IF stale THEN delete_kpi_value(acc.rows, value.agg_value)
                    ELSE acc.rows,
                    stale, value, current_agg_value, kpi_value)

\* body of the loop "for value in values" of
\* compute_kpi_values_for_aggregation_kind, for one fetched value; acc carries
\* the rows of the table, the value_updated flag and the write counters
ScanValue(acc, value, current_agg_value, keep, kpi_value) ==
    DeleteIfStale(acc, IsStale(value, keep), value, current_agg_value, kpi_value)

RECURSIVE ScanValues(_, _, _, _, _, _)
\* the loop over the fetched values, from index i on
ScanValues(acc, values, i, current_agg_value, keep, kpi_value) ==
    IF i > Len(values) THEN acc
    ELSE ScanValues(ScanValue(acc, values[i], current_agg_value, keep, kpi_value),
                    values, i + 1, current_agg_value, keep, kpi_value)

\* mutant of InsertIfMissing: the value_updated flag is ignored and a row is
\* inserted on every call
InsertIfMissing_Always(scan, current_agg_value, kpi_value) ==
    [raised |-> FALSE,
     rows |-> add_kpi_value(scan.rows, current_agg_value, kpi_value),
     adds |-> 1, updates |-> scan.updates, deletes |-> scan.deletes]

\* lines 127-144: create a new KPI value when the loop updated none
InsertIfMissing(scan, current_agg_value, kpi_value) ==
    IF ~scan.value_updated
    THEN [raised |-> FALSE,
          rows |-> add_kpi_value(scan.rows, current_agg_value, kpi_value),
          adds |-> 1, updates |-> scan.updates, deletes |-> scan.deletes]
    ELSE [raised |-> FALSE, rows |-> scan.rows,
          adds |-> 0, updates |-> scan.updates, deletes |-> scan.deletes]

\* lines 102-144, given the fetched values, the current label, the retained
\* labels and the freshly computed value
ScanAndInsert(rows, current_agg_value, keep, kpi_value) ==
    InsertIfMissing(ScanValues([rows |-> rows, value_updated |-> FALSE,
                                updates |-> 0, deletes |-> 0],
                               rows, 1, current_agg_value, keep, kpi_value),
                    current_agg_value, kpi_value)

\* lines 95-144, given the current label and the results of the two resolvers
RecomputeWith(rows, kpi, agg_kind, raw, r) ==
    IF r.keep.raised \/ r.timestamps.raised
    THEN [raised |-> TRUE, rows |-> rows, adds |-> 0, updates |-> 0, deletes |-> 0]
    ELSE ScanAndInsert(rows, r.current_agg_value, r.keep,
                       get_value(kpi, agg_kind, r.timestamps.start,
                                 r.timestamps.stop, raw))

\* lines 98-101: the current label and the results of the two resolvers
Resolved(agg_kind, now) ==
    [current_agg_value |-> get_truncated_value(now, agg_kind),
     keep              |-> get_aggregations_to_keep(agg_kind, now),
     timestamps        |-> get_timestamps(agg_kind, now)]

\* Resolved tabulated once for the periods the specifications hand to the
\* processor (a lookup table: ResolvedAt(g, p) = Resolved(g, p) for every g, p)
ResolvedTable ==
    [g \in Granularities |-> [p \in KnownPeriods |-> Resolved(g, p)]]

ResolvedAt(agg_kind, now) ==
    IF agg_kind \in Granularities /\ now \in KnownPeriods
    THEN ResolvedTable[agg_kind][now]
    ELSE Resolved(agg_kind, now)

\* Processor.compute_kpi_values_for_aggregation_kind on the rows stored for
\* (kpi, agg_kind); raised: the call ended with an exception
compute_kpi_values_for_aggregation_kind(rows, now, kpi, agg_kind, raw) ==
    RecomputeWith(rows, kpi, agg_kind, raw, ResolvedAt(agg_kind, now))

\* the (kpi, agg_kind) pairs of the two loops of process_tick and
\* restore_from_db, in the order the code visits them
HourlyKinds == <<"D", "W", "M">>

HourlyCalls == [i \in 1 .. 3 * NumKpis |->
                  [kpi |-> ((i - 1) \div 3) + 1, agg_kind |-> HourlyKinds[((i - 1) % 3) + 1]]]

YearlyCalls == [i \in 1 .. NumKpis |-> [kpi |-> i, agg_kind |-> "Y"]]

\* the run after call c, with reference period now, ended with result r
AfterCall(acc, c, now, r) ==
    [raised  |-> r.raised,
     store   |-> [acc.store EXCEPT ![c.kpi][c.agg_kind] = r.rows],
     calls   |-> IF r.raised THEN acc.calls
                 ELSE Append(acc.calls, <<c.kpi, c.agg_kind, now>>),
     adds    |-> acc.adds + r.adds,
     updates |-> acc.updates + r.updates,
     deletes |-> acc.deletes + r.deletes]

RunCall(acc, c, now, raw) ==
    AfterCall(acc, c, now,
              compute_kpi_values_for_aggregation_kind(
                  acc.store[c.kpi][c.agg_kind], now, c.kpi, c.agg_kind, raw))

RECURSIVE RunCalls(_, _, _, _, _)
\* runs compute_kpi_values_for_aggregation_kind for calls[i..] with reference
\* period now, stopping at the first call that raises; acc carries the tables
\* as written inside the session, the calls completed and the write counters
RunCalls(acc, calls, i, now, raw) ==
    IF i > Len(calls) \/ acc.raised THEN acc
    ELSE RunCalls(RunCall(acc, calls[i], now, raw), calls, i + 1, now, raw)

StartRun(store) ==
    [raised |-> FALSE, store |-> store, calls |-> <<>>,
     adds |-> 0, updates |-> 0, deletes |-> 0]

(***************************************************************************)
(* Processor: process_tick and restore_from_db                              *)
(*                                                                          *)
(* Both are functions of the processor p = [current_period, current_day],   *)
(* the tables and the raw events; the result carries the new processor      *)
(* fields, the tables as written inside the session, the return value and   *)
(* whether an exception left the call.                                      *)
(***************************************************************************)

Outcome(raised, ret, current_period, current_day, run) ==
    [raised |-> raised, ret |-> ret,
     current_period |-> current_period, current_day |-> current_day,
     store |-> run.store, calls |-> run.calls,
     adds |-> run.adds, updates |-> run.updates, deletes |-> run.deletes]

\* mutant of AfterYearly: current_day is not set after the Yearly loop
AfterYearly_DayNotSet(p, now, now_day, yearly) ==
    IF yearly.raised
    THEN Outcome(TRUE, FALSE, now, p.current_day, yearly)
    ELSE Outcome(FALSE, TRUE, now, p.current_day, yearly)

\* process_tick, lines 51-57: the Yearly loop has run
AfterYearly(p, now, now_day, yearly) ==
    IF yearly.raised
    THEN Outcome(TRUE, FALSE, now, p.current_day, yearly)
    ELSE Outcome(FALSE, TRUE, now, now_day, yearly)

\* process_tick, lines 47-57: the hourly loop has run for period_to_compute
AfterHourly(p, period_to_compute, now, now_day, raw, hourly) ==
    IF hourly.raised
    THEN Outcome(TRUE, FALSE, now, p.current_day, hourly)
    ELSE IF p.current_day # now_day
    THEN AfterYearly(p, now, now_day,
                     RunCalls(hourly, YearlyCalls, 1, period_to_compute, raw))
    ELSE Outcome(FALSE, TRUE, now, p.current_day, hourly)

\* process_tick, lines 37-57: the period has changed
AdvancePeriod(p, store, now, raw) ==
    AfterHourly(p, p.current_period, now, get_truncated_value(now, "D"), raw,
                RunCalls(StartRun(store), HourlyCalls, 1, p.current_period, raw))

\* mutant of process_tick: the "same period" early return is missing
process_tick_NoGuard(p, store, now, raw) == AdvancePeriod(p, store, now, raw)

\* Processor.process_tick
process_tick(p, store, now, raw) ==
    IF p.current_period = now
    THEN Outcome(FALSE, FALSE, p.current_period, p.current_day, StartRun(store))
    ELSE AdvancePeriod(p, store, now, raw)

\* restore_from_db, lines 197-204: the yearly replay, after the hourly one
RestoreYearly(p, lastPeriod, lastPeriod_day, raw, hourly) ==
    IF hourly.raised \/ p.current_day = lastPeriod_day
    THEN hourly
    ELSE RunCalls(hourly, YearlyCalls, 1, lastPeriod, raw)

\* restore_from_db, lines 188-204: a last period is persisted
Replay(p, store, lastPeriod, raw) ==
    RestoreYearly(p, lastPeriod, get_truncated_value(lastPeriod, "D"), raw,
                  IF lastPeriod # p.current_period
                  THEN RunCalls(StartRun(store), HourlyCalls, 1, lastPeriod, raw)
                  ELSE StartRun(store))

\* mutant of RestoreOutcome: the processor adopts the replayed period as its
\* cursor
RestoreOutcome_CursorAdopted(p, run) ==
    IF run.calls = <<>>
    THEN Outcome(run.raised, FALSE, p.current_period, p.current_day, run)
    ELSE Outcome(run.raised, FALSE, run.calls[1][3],
                 get_truncated_value(run.calls[1][3], "D"), run)

\* restore_from_db returns None and assigns no field of the processor
RestoreOutcome(p, run) ==
    Outcome(run.raised, FALSE, p.current_period, p.current_day, run)

\* Processor.restore_from_db
restore_from_db(p, store, lastPeriod, raw) ==
    IF lastPeriod = NoPeriod
    THEN RestoreOutcome(p, StartRun(store))
    ELSE RestoreOutcome(p, Replay(p, store, lastPeriod, raw))

\* the transactional scope around a call: the session commits what the call
\* wrote when it returns and rolls back when an exception leaves it
Committed(store, out) == IF out.raised THEN store ELSE out.store

\* the calls of a tick whose day is now_day
TickCalls(p, now_day) ==
    IF p.current_day # now_day THEN HourlyCalls \o YearlyCalls ELSE HourlyCalls

\* lines 37-45/51-54 up to the n-th call, which raises
InterruptedAt(p, store, now, raw, calls, n) ==
    Outcome(TRUE, FALSE, now, p.current_day,
            RunCalls(StartRun(store),
                     SubSeq(calls, 1, (IF n > Len(calls) THEN Len(calls) ELSE n) - 1),
                     1, p.current_period, raw))

\* process_tick when a persistence call or a KPI computation raises inside
\* the n-th call of compute_kpi_values_for_aggregation_kind: lines 37-38 have
\* run, the calls before the n-th have completed, line 55 is never reached
process_tick_interrupted(p, store, now, raw, n) ==
    IF p.current_period = now
    THEN process_tick(p, store, now, raw)
    ELSE InterruptedAt(p, store, now, raw,
                       TickCalls(p, get_truncated_value(now, "D")), n)

(***************************************************************************)
(* State machine                                                            *)
(***************************************************************************)

VARIABLES
    current_period,   \* Processor.current_period
    current_day,      \* Processor.current_day
    store,            \* persisted Values: store[kpi][agg_kind] is a list of rows
    last_period,      \* persisted last-period marker, or NoPeriod
    raw,              \* raw events: the hours at which an event was recorded
    last,             \* the last call made on the processor and its outcome
    streak            \* history of the ticks received in the current calendar day

vars == <<current_period, current_day, store, last_period, raw, last, streak>>

EmptyStore == [k \in KpiIds |-> [g \in Granularities |-> <<>>]]

Processor == [current_period |-> current_period, current_day |-> current_day]

NoCall == [op |-> "init", prev |-> "init", now |-> NoPeriod,
           raised |-> FALSE, ret |-> FALSE, calls |-> <<>>,
           adds |-> 0, updates |-> 0, deletes |-> 0]

CallRecord(op, now, out) ==
    [op |-> op, prev |-> last.op, now |-> now,
     raised |-> out.raised, ret |-> out.ret, calls |-> out.calls,
     adds |-> out.adds, updates |-> out.updates, deletes |-> out.deletes]

EnvRecord(op) == [NoCall EXCEPT !.op = op, !.prev = last.op]

NoStreak == [day |-> 0, day_yearly |-> 0, ticks |-> 0, yearly |-> 0,
             updated |-> 0, stale_day |-> FALSE]

\* number of Yearly recomputes a call committed
YearlyRuns(out) ==
    IF out.raised THEN 0
    ELSE Cardinality({i \in 1 .. Len(out.calls) : out.calls[i][2] = "Y"})

\* the history of the current day after on_tick(now) with outcome out:
\* day/day_yearly count the Yearly recomputes of the ticks of that day;
\* ticks/yearly/updated describe the run of consecutive hourly ticks that
\* began with the tick of hour 0 (ticks = 0: no such run; updated: how many
\* of them returned True); stale_day tells whether current_day differed from
\* that day before the run's first tick
StreakWith(now, day, y, u, dy) ==
    IF PeriodHour(now) = 0
    THEN [day |-> day, day_yearly |-> dy, ticks |-> 1, yearly |-> y,
          updated |-> u, stale_day |-> current_day # day]
    ELSE IF streak.ticks > 0 /\ streak.day = day /\ PeriodHour(now) = streak.ticks
    THEN [streak EXCEPT !.day_yearly = dy, !.ticks = @ + 1,
                        !.yearly = @ + y, !.updated = @ + u]
    ELSE [NoStreak EXCEPT !.day = day, !.day_yearly = dy]

StreakOn(now, day, y, u) ==
    StreakWith(now, day, y, u, IF streak.day = day THEN streak.day_yearly + y ELSE y)

StreakAfter(now, out) ==
    StreakOn(now, get_truncated_value(now, "D"), YearlyRuns(out),
             IF out.ret THEN 1 ELSE 0)

\* Processor.__init__(now) over an empty store, with the persisted marker
\* drawn from markers
InitWith(periods, markers) ==
    /\ current_period \in periods
    /\ current_day = get_truncated_value(current_period, "D")
    /\ store = EmptyStore
    /\ last_period \in markers
    /\ raw = {}
    /\ last = NoCall
    /\ streak = NoStreak

\* the effect of a call with outcome out, made inside its transactional scope
Apply(op, now, out) ==
    /\ current_period' = out.current_period
    /\ current_day' = out.current_day
    /\ store' = Committed(store, out)
    /\ last' = CallRecord(op, now, out)
    /\ UNCHANGED <<last_period, raw>>

TickWith(now, out) == Apply("tick", now, out) /\ streak' = StreakAfter(now, out)

\* on_tick(now)
Tick(now) == TickWith(now, process_tick(Processor, store, now, raw))

\* on_tick(now) during which a persistence call or a KPI computation fails
TickFault(now, n) ==
    TickWith(now, process_tick_interrupted(Processor, store, now, raw, n))

\* restore_from_db()
restore ==
    /\ Apply("restore", last_period,
             restore_from_db(Processor, store, last_period, raw))
    /\ UNCHANGED streak

\* the caller persists the processor's current period as the marker
SaveLastPeriod ==
    /\ last_period # current_period
    /\ last_period' = current_period
    /\ last' = EnvRecord("save")
    /\ UNCHANGED <<current_period, current_day, store, raw, streak>>

\* the ingestion side records a raw event in the current hour
Ingest ==
    /\ Cardinality(raw) < MaxEvents
    /\ current_period \notin raw
    /\ raw' = raw \cup {current_period}
    /\ last' = EnvRecord("ingest")
    /\ UNCHANGED <<current_period, current_day, store, last_period, streak>>

\* Spec: the clock source never goes back
Init == InitWith(TickPeriods, {NoPeriod})

on_tick == \E now \in {t \in TickPeriods : t >= current_period} : Tick(now)

Next == on_tick \/ restore \/ SaveLastPeriod \/ Ingest

Spec == Init /\ [][Next]_vars

\* SpecAnyOrder: on_tick is called with arbitrary periods, and the persisted
\* marker found at construction is arbitrary
InitAnyOrder == InitWith(AnyPeriods, {NoPeriod} \cup AnyPeriods)

on_tick_any == \E now \in AnyPeriods : Tick(now)

NextAnyOrder == on_tick_any \/ restore \/ SaveLastPeriod \/ Ingest

SpecAnyOrder == InitAnyOrder /\ [][NextAnyOrder]_vars

\* SpecHourly: the clock source ticks every hour (a tick may be repeated)
InitHourly == InitWith(HourlyStarts, {NoPeriod})

on_tick_hourly ==
    \E now \in {current_period, current_period + 1} :
        now <= HourlyEnd /\ Tick(now)

NextHourly == on_tick_hourly \/ Ingest

SpecHourly == InitHourly /\ [][NextHourly]_vars

\* SpecFaults: Spec with ticks during which a call fails
on_tick_fault ==
    \E now \in {t \in TickPeriods : t >= current_period} :
        \E n \in 1 .. 4 * NumKpis : TickFault(now, n)

NextFaults == on_tick \/ on_tick_fault \/ Ingest

SpecFaults == Init /\ [][NextFaults]_vars

\* SpecCalls: the class methods of Processor are also called directly, with
\* any aggregation kind and the processor's current period, which runs over
\* CallPeriods; last records the call and what it returned
DirectCall(op, kpi, agg_kind, now, raised, window, keep, writes) ==
    [op |-> op, prev |-> last.op, now |-> now,
     raised |-> raised, ret |-> FALSE, calls |-> <<>>,
     adds |-> writes.adds, updates |-> writes.updates, deletes |-> writes.deletes,
     kpi |-> kpi, agg_kind |-> agg_kind,
     start |-> window.start, stop |-> window.stop,
     none |-> keep.none, labels |-> keep.labels]

NoWindow == [raised |-> FALSE, start |-> 0, stop |-> 0]

NoKeep == [raised |-> FALSE, none |-> FALSE, labels |-> <<>>]

NoWrites == [adds |-> 0, updates |-> 0, deletes |-> 0]

GotTimestamps(agg_kind, now, window) ==
    /\ last' = DirectCall("get_timestamps", 0, agg_kind, now, window.raised,
                          window, NoKeep, NoWrites)
    /\ UNCHANGED <<current_period, current_day, store, last_period, raw, streak>>

\* Processor.get_timestamps(agg_kind, current_period)
call_get_timestamps ==
    \E agg_kind \in AnyKinds :
        GotTimestamps(agg_kind, current_period,
                      get_timestamps(agg_kind, current_period))

GotAggregationsToKeep(agg_kind, now, keep) ==
    /\ last' = DirectCall("get_aggregations_to_keep", 0, agg_kind, now,
                          keep.raised, NoWindow, keep, NoWrites)
    /\ UNCHANGED <<current_period, current_day, store, last_period, raw, streak>>

\* Processor.get_aggregations_to_keep(agg_kind, current_period)
call_get_aggregations_to_keep ==
    \E agg_kind \in AnyKinds :
        GotAggregationsToKeep(agg_kind, current_period,
                              get_aggregations_to_keep(agg_kind, current_period))

Computed(kpi, agg_kind, now, r) ==
    /\ last' = DirectCall("compute", kpi, agg_kind, now, r.raised,
                          NoWindow, NoKeep, r)
    /\ store' = IF r.raised THEN store
                ELSE [store EXCEPT ![kpi] = [g \in Granularities \cup {agg_kind} |->
                                               IF g = agg_kind THEN r.rows
                                               ELSE store[kpi][g]]]
    /\ UNCHANGED <<current_period, current_day, last_period, raw, streak>>

\* Processor.compute_kpi_values_for_aggregation_kind(current_period, kpi,
\* agg_kind, session) with a kind that is none of D, W, M, Y, inside its own
\* transactional scope (the calls with D, W, M, Y are those of on_tick)
call_compute_unsupported ==
    \E kpi \in KpiIds : \E agg_kind \in AnyKinds \ Granularities :
        Computed(kpi, agg_kind, current_period,
                 compute_kpi_values_for_aggregation_kind(
                     <<>>, current_period, kpi, agg_kind, raw))

InitCalls == InitWith(CallPeriods, {NoPeriod})

on_tick_calls == \E now \in {t \in CallPeriods : t >= current_period} : Tick(now)

NextCalls ==
    \/ on_tick_calls
    \/ call_get_timestamps
    \/ call_get_aggregations_to_keep
    \/ call_compute_unsupported
    \/ Ingest

SpecCalls == InitCalls /\ [][NextCalls]_vars

\* SpecDense: the clock source never goes back and its periods are close
\* enough for the retention horizons to fill; no raw event is recorded
InitDense == InitWith(DensePeriods, {NoPeriod})

on_tick_dense == \E now \in {t \in DensePeriods : t >= current_period} : Tick(now)

NextDense == on_tick_dense \/ restore \/ SaveLastPeriod

SpecDense == InitDense /\ [][NextDense]_vars

(***************************************************************************)
(* Properties                                                               *)
(***************************************************************************)

Labels(rows) == {rows[i].agg_value : i \in 1 .. Len(rows)}

Writes(call) == call.adds + call.updates + call.deletes

\* C1: from an empty store, after any sequence of on_tick and
\* restore_from_db calls, every (kpi, granularity) table holds at most one
\* row per bucket label
BucketUniqueness ==
    \A k \in KpiIds : \A g \in Granularities :
        \A i, j \in 1 .. Len(store[k][g]) :
            store[k][g][i].agg_value = store[k][g][j].agg_value => i = j

\* C1 witness: a tick that follows restore_from_db has updated in place the
\* Daily bucket the restore had just recomputed
RestoreThenTickSameBucket ==
    /\ last.op = "tick" /\ last.prev = "restore" /\ ~last.raised
    /\ last.updates >= 3 * NumKpis
    /\ last_period # NoPeriod
    /\ last_period # current_period
    /\ get_truncated_value(last.calls[1][3], "D") = get_truncated_value(last_period, "D")

\* C2: on_tick(now) with now = current_period returns False, makes no
\* persistence write and leaves the store and the cursor unchanged
NoOpOnSamePeriod ==
    [][ (last'.op = "tick" /\ last'.now = current_period)
        => /\ ~last'.ret /\ ~last'.raised
           /\ Writes(last') = 0 /\ last'.calls = <<>>
           /\ store' = store
           /\ current_period' = current_period
           /\ current_day' = current_day ]_vars

\* C2 witness: a second on_tick with the period of the preceding tick has
\* returned False over a store that holds values
SecondTickSamePeriod ==
    /\ last.op = "tick" /\ last.prev = "tick"
    /\ last.now = current_period /\ ~last.ret
    /\ store[1]["D"] # <<>>

\* the calls of a sequence of completed calls that are not Yearly ones
HourlyPart(calls) == SelectSeq(calls, LAMBDA c : c[2] # "Y")

\* C3: every on_tick(now) with now # current_period returns True, moves
\* current_period to now and runs recompute-and-prune exactly once for every
\* KPI and each of D, W, M, with the cursor held before the tick as reference
AdvancingTickRecomputesClosedPeriod ==
    [][ (last'.op = "tick" /\ last'.now # current_period)
        => /\ last'.ret /\ ~last'.raised
           /\ current_period' = last'.now
           /\ HourlyPart(last'.calls)
                = [i \in 1 .. 3 * NumKpis |->
                     <<HourlyCalls[i].kpi, HourlyCalls[i].agg_kind, current_period>>] ]_vars

WindowLabels(agg_kind, p) ==
    CASE agg_kind = "D" ->
            {get_truncated_value(24 * (DayNumber(p) - i), "D") : i \in 0 .. 6}
      [] agg_kind = "W" ->
            {get_truncated_value(24 * (DayNumber(p) - 7 * i), "W") : i \in 0 .. 3}
      [] agg_kind = "M" ->
            {((PeriodYear(p) * 12 + PeriodMonth(p) - 1 - i) \div 12) * 100
               + ((PeriodYear(p) * 12 + PeriodMonth(p) - 1 - i) % 12) + 1 : i \in 0 .. 11}

\* the D, W, M recomputes committed by the last call
CommittedHourly ==
    IF last.op \in {"tick", "restore"} /\ ~last.raised
    THEN Range(HourlyPart(last.calls)) ELSE {}

\* C5 as stated: after recompute-and-prune with reference P the stored D
\* (W, M) labels of the KPI are exactly the 7 (4, 12) labels ending at P
RetentionExact ==
    \A c \in CommittedHourly :
        Labels(store[c[1]][c[2]]) = WindowLabels(c[2], c[3])

\* C5 as amended: after recompute-and-prune with reference P the stored D
\* (W, M) labels of the KPI all lie among the 7 (4, 12) labels ending at P
\* and include P's own label; labels of buckets never computed are absent
RetentionWindow ==
    \A c \in CommittedHourly :
        /\ Labels(store[c[1]][c[2]]) \subseteq WindowLabels(c[2], c[3])
        /\ get_truncated_value(c[3], c[2]) \in Labels(store[c[1]][c[2]])
        /\ Len(store[c[1]][c[2]]) <= Cardinality(WindowLabels(c[2], c[3]))

\* C5 witness: a tick has pruned old values and kept more than one label
TickPrunedOldValues ==
    /\ last.op = "tick" /\ ~last.raised /\ last.deletes > 0
    /\ \E k \in KpiIds : \E g \in {"D", "W", "M"} : Len(store[k][g]) > 1

\* C6: no Yearly value is ever deleted: in every step the Yearly labels
\* stored for a KPI are still stored afterwards
YearlyNeverShrinks ==
    [][ \A k \in KpiIds :
          Labels(store[k]["Y"]) \subseteq Labels(store'[k]["Y"]) ]_vars

\* C6 witness: the Yearly recompute has run over a table that already held
\* the label of an earlier year, and both labels are stored
TwoYearsKept ==
    /\ last.op \in {"tick", "restore"} /\ ~last.raised
    /\ \E i \in 1 .. Len(last.calls) : last.calls[i][2] = "Y"
    /\ \A k \in KpiIds : Cardinality(Labels(store[k]["Y"])) >= 2

\* recompute_and_prune on a table
Recomputed(rows, now, kpi, agg_kind) ==
    compute_kpi_values_for_aggregation_kind(rows, now, kpi, agg_kind, raw).rows

\* a second recompute_and_prune leaves the table once as it is
SecondRunKeeps(once, now, kpi, agg_kind) ==
    Recomputed(once, now, kpi, agg_kind) = once

\* C7: with unchanged raw data, running recompute_and_prune a second time
\* with the same reference period, KPI and granularity leaves the table as
\* the first run left it (same rows: labels, values, no duplicate)
RecomputeIdempotent ==
    \A k \in KpiIds : \A g \in Granularities : \A now \in TickPeriods :
        SecondRunKeeps(Recomputed(store[k][g], now, k, g), now, k, g)

\* C7 witness: restore_from_db has run twice in a row, the second run
\* recomputing in place the buckets the first had written
RestoredTwice ==
    /\ last.op = "restore" /\ last.prev = "restore" /\ ~last.raised
    /\ last.updates >= 3 * NumKpis /\ last.adds = 0

\* the stored Values: for every KPI and granularity, the set of (label, value)
StoredValues(s) == [k \in KpiIds |-> [g \in Granularities |-> Range(s[k][g])]]

\* on_tick(last_period + 1) on the processor as a call with outcome r left it,
\* over the tables s
TickAfter(r, s) ==
    Committed(s, process_tick([current_period |-> r.current_period,
                               current_day |-> r.current_day],
                              s, last_period + 1, raw))

\* the tables after restore_from_db followed by on_tick(last_period + 1)
RecoveredStore ==
    TickAfter(restore_from_db(Processor, store, last_period, raw),
              Committed(store, restore_from_db(Processor, store, last_period, raw)))

\* the tables after on_tick(last_period + 1) on a processor whose cursor is
\* the persisted last period
UninterruptedStore ==
    TickAfter([current_period |-> last_period,
               current_day |-> get_truncated_value(last_period, "D")], store)

\* C8: when a last period is persisted and the in-memory cursor is behind it,
\* restore_from_db followed by on_tick(last period + 1 hour) leaves the same
\* stored Values as on_tick(last period + 1 hour) on a processor whose cursor
\* is the last period
RecoveryReplayEquivalent ==
    (last_period # NoPeriod /\ current_period < last_period)
        => StoredValues(RecoveredStore) = StoredValues(UninterruptedStore)

\* C9: current_period never moves to an earlier period, whatever periods
\* on_tick is called with
CursorMonotonic == [][current_period' >= current_period]_vars

\* C10: a tick during which a persistence call or a KPI computation fails
\* leaves current_period and current_day as they were before the tick
FailedTickNotApplied ==
    [][ (last'.op = "tick" /\ last'.raised)
        => (current_period' = current_period /\ current_day' = current_day) ]_vars

\* the timestamp of midnight of day d of month m of year y
Midnight(y, m, d) == PeriodOf(y, m, d, 0) * 3600

\* the timestamp of midnight of the first day of the month of index mi
\* (= 12 * year + month - 1)
FirstOfMonth(mi) == Midnight(mi \div 12, (mi % 12) + 1, 1)

MonthIndex(p) == PeriodYear(p) * 12 + PeriodMonth(p) - 1

\* C11: get_timestamps("M", now) returns the midnight of the first day of
\* now's month and the midnight of the first day of the following month
\* (January 1 of the next year for December) and never fails, and an
\* advancing on_tick completes the Monthly recompute of the closed period for
\* every KPI
MonthlyWindowResolved ==
    [][ /\ (last'.op = "get_timestamps" /\ last'.agg_kind = "M")
           => /\ ~last'.raised
              /\ last'.start = FirstOfMonth(MonthIndex(last'.now))
              /\ last'.stop = FirstOfMonth(MonthIndex(last'.now) + 1)
        /\ (last'.op = "tick" /\ last'.now # current_period)
           => /\ ~last'.raised
              /\ \A k \in KpiIds : <<k, "M", current_period>> \in Range(last'.calls)
      ]_vars

\* C12: get_timestamps("W", now) starts at the midnight of now's day plus
\* (1 - weekday) days and stops 7 days later; the start is the Monday of
\* now's ISO week and now's day lies inside the window
WeeklyWindowOnMonday ==
    (last.op = "get_timestamps" /\ last.agg_kind = "W")
        => /\ ~last.raised
           /\ last.start = (DayNumber(last.now) + 1 - PeriodWeekday(last.now)) * 86400
           /\ last.stop = last.start + 7 * 86400
           /\ PeriodWeekday(last.start \div 3600) = 1
           /\ IsoWeekLabel(last.start \div 3600) = IsoWeekLabel(last.now)
           /\ last.start <= DayNumber(last.now) * 86400
           /\ DayNumber(last.now) * 86400 < last.stop

\* C12 witness: the Weekly window of a Sunday has been resolved; it began
\* six days earlier, in the week that spans the end of the year
WeekOfSundayResolved ==
    /\ last.op = "get_timestamps" /\ last.agg_kind = "W" /\ ~last.raised
    /\ last.now = PeriodOf(2023, 12, 31, 23)
    /\ last.start = Midnight(2023, 12, 25)
    /\ last.stop = Midnight(2024, 1, 1)

\* the midnight of the calendar day that follows the day of civil date c
NextMidnight(c) ==
    IF c.day < DaysInMonth(c.year, c.month) THEN Midnight(c.year, c.month, c.day + 1)
    ELSE IF c.month < 12 THEN Midnight(c.year, c.month + 1, 1)
    ELSE Midnight(c.year + 1, 1, 1)

\* C13: get_timestamps("D", now) is [midnight of now's day, midnight of the
\* next calendar day), also at the end of a month or year, and
\* get_timestamps("Y", now) is [January 1 of now's year, January 1 of the
\* following year); for 2024-03-15 14:00 they are [2024-03-15, 2024-03-16)
\* and [2024-01-01, 2025-01-01)
DailyYearlyWindows ==
    /\ (last.op = "get_timestamps" /\ last.agg_kind = "D")
         => /\ ~last.raised
            /\ last.start = Midnight(PeriodYear(last.now), PeriodMonth(last.now),
                                     PeriodDay(last.now))
            /\ last.stop = NextMidnight(CivilFromDays(DayNumber(last.now)))
            /\ last.now = PeriodOf(2024, 3, 15, 14)
                 => (last.start = Midnight(2024, 3, 15) /\ last.stop = Midnight(2024, 3, 16))
    /\ (last.op = "get_timestamps" /\ last.agg_kind = "Y")
         => /\ ~last.raised
            /\ last.start = Midnight(PeriodYear(last.now), 1, 1)
            /\ last.stop = Midnight(PeriodYear(last.now) + 1, 1, 1)
            /\ last.now = PeriodOf(2024, 3, 15, 14)
                 => (last.start = Midnight(2024, 1, 1) /\ last.stop = Midnight(2025, 1, 1))

\* C13 witness: the Yearly window of the last hour of 2023 has been resolved
\* and stops where 2024 begins
YearEndResolved ==
    /\ last.op = "get_timestamps" /\ last.agg_kind = "Y" /\ ~last.raised
    /\ last.now = PeriodOf(2023, 12, 31, 23)
    /\ last.stop = Midnight(2024, 1, 1)

\* C14: with a kind that is none of D, W, M, Y, get_timestamps and
\* get_aggregations_to_keep raise, and
\* compute_kpi_values_for_aggregation_kind raises without any add, update or
\* delete: the store is as before the call
UnsupportedKindFails ==
    [][ (/\ last'.op \in {"get_timestamps", "get_aggregations_to_keep", "compute"}
         /\ last'.agg_kind \notin Granularities)
        => /\ last'.raised
           /\ Writes(last') = 0
           /\ last'.labels = <<>> /\ ~last'.none
           /\ store' = store ]_vars

\* C14 witness: compute_kpi_values_for_aggregation_kind has raised for an
\* unsupported kind over a store that holds values
UnsupportedKindOverValues ==
    /\ last.op = "compute" /\ last.agg_kind \notin Granularities /\ last.raised
    /\ \A k \in KpiIds : \A g \in Granularities : store[k][g] # <<>>

\* the calls calls, each with reference period now, as last.calls records them
CallsWith(calls, now) ==
    [i \in 1 .. Len(calls) |-> <<calls[i].kpi, calls[i].agg_kind, now>>]

\* the calls restore_from_db is to make for the marker lastPeriod
ReplayOf(lastPeriod) ==
    IF lastPeriod = NoPeriod THEN <<>>
    ELSE (IF lastPeriod # current_period
          THEN CallsWith(HourlyCalls, lastPeriod) ELSE <<>>)
         \o (IF get_truncated_value(lastPeriod, "D") # current_day
             THEN CallsWith(YearlyCalls, lastPeriod) ELSE <<>>)

\* C15: restore_from_db makes no recompute and no write when no marker is
\* persisted; otherwise it runs D, W, M for every KPI with the marker as
\* reference iff the marker differs from current_period, and Y for every KPI
\* with the marker as reference iff the marker's day differs from current_day
RestoreReplaysExactly ==
    [][ last'.op = "restore"
        => /\ ~last'.raised
           /\ last'.calls = ReplayOf(last_period)
           /\ last_period = NoPeriod => (Writes(last') = 0 /\ store' = store) ]_vars

\* C16: restore_from_db leaves current_period and current_day as they were,
\* whatever the marker, and the tick that follows a restore computes the
\* period of the in-memory cursor
RestoreLeavesCursor ==
    [][ /\ last'.op = "restore"
           => (current_period' = current_period /\ current_day' = current_day)
        /\ (last'.op = "tick" /\ last.op = "restore")
           => \A i \in 1 .. Len(last'.calls) : last'.calls[i][3] = current_period
      ]_vars

\* C16 witness: restore_from_db has replayed a marker that differs from the
\* cursor, and the cursor is still not the marker
RestoredOtherPeriod ==
    /\ last.op = "restore" /\ ~last.raised
    /\ Len(last.calls) >= 3 * NumKpis
    /\ last_period # NoPeriod /\ last_period # current_period
    /\ last.calls[1][3] = last_period

\* the recomputes committed by the last call, of every kind
CommittedCalls(call) ==
    IF call.op \in {"tick", "restore"} /\ ~call.raised THEN Range(call.calls) ELSE {}

\* the value the KPI computes over the window resolved for (agg_kind, now)
ValueOver(kpi, agg_kind, window) ==
    get_value(kpi, agg_kind, window.start, window.stop, raw)

\* the rows of before that the retention policy of (agg_kind, now) keeps and
\* that are not the current bucket
KeptOthers(before, agg_kind, now) ==
    {r \in Range(before) :
        /\ r.agg_value # get_truncated_value(now, agg_kind)
        /\ (agg_kind = "Y" \/ r.agg_value \in WindowLabels(agg_kind, now))}

\* the post-condition of recompute_and_prune(now, kpi, agg_kind) between the
\* table before and the table after
PostCondition(before, after, now, kpi, agg_kind) ==
    /\ Cardinality({i \in 1 .. Len(after) :
                       after[i].agg_value = get_truncated_value(now, agg_kind)}) = 1
    /\ Range(after) =
          KeptOthers(before, agg_kind, now)
             \cup {[agg_value |-> get_truncated_value(now, agg_kind),
                    kpi_value |-> ValueOver(kpi, agg_kind, get_timestamps(agg_kind, now))]}
    /\ Len(after) = Cardinality(Range(after))

\* C17: after recompute_and_prune(P, kpi, g) exactly one Value has the label
\* of P and its value is the KPI's value over the window of (g, P), whether
\* the bucket existed or not; the Values whose label is outside the retained
\* set are deleted (none for Y); every other Value is left as it was
RecomputePostCondition ==
    [][ \A c \in CommittedCalls(last') :
            PostCondition(store[c[1]][c[2]], store'[c[1]][c[2]], c[3], c[1], c[2]) ]_vars

\* C17 witness: one tick has deleted old values, updated existing buckets in
\* place and left a retained bucket of an earlier period untouched
TickDeletedUpdatedKept ==
    /\ last.op = "tick" /\ ~last.raised
    /\ last.deletes > 0 /\ last.updates > 0
    /\ \E k \in KpiIds : \E g \in {"D", "W", "M"} :
          /\ Len(store[k][g]) > 1
          /\ \E r \in Range(store[k][g]) : r.kpi_value > 0

\* C18: in every reachable state each KPI has at most 7 Daily, 4 Weekly and
\* 12 Monthly values, and after recompute_and_prune(P, kpi, g) every label
\* stored for (kpi, g) is among get_aggregations_to_keep(g, P)
BoundedStorage ==
    /\ \A k \in KpiIds :
          /\ Len(store[k]["D"]) <= DailyKeep
          /\ Len(store[k]["W"]) <= WeeklyKeep
          /\ Len(store[k]["M"]) <= MonthlyKeep
    /\ \A c \in CommittedHourly :
          Labels(store[c[1]][c[2]])
             \subseteq Range(get_aggregations_to_keep(c[2], c[3]).labels)

\* C18 witness: a tick has deleted the oldest Daily value and every KPI holds
\* exactly 7 Daily values
DailyHorizonFull ==
    /\ last.op = "tick" /\ ~last.raised /\ last.deletes > 0
    /\ \A k \in KpiIds : Len(store[k]["D"]) = DailyKeep

\* C19: at construction, after every on_tick that returns and after every
\* restore_from_db, current_day is the day label of current_period
CursorConsistent ==
    (last.op \in {"init", "tick", "restore"} /\ ~last.raised)
        => current_day = get_truncated_value(current_period, "D")

\* the retention list keep keeps the label of period now
KeepsCurrent(keep, agg_kind, now) ==
    keep.none \/ get_truncated_value(now, agg_kind) \in Range(keep.labels)

\* no row of before is both old for keep and the current bucket of now
NoneDeletedAndUpdated(before, keep, agg_kind, now) ==
    \A r \in Range(before) :
        ~(IsStale(r, keep) /\ r.agg_value = get_truncated_value(now, agg_kind))

\* C20: for every kind and reference period the list of
\* get_aggregations_to_keep holds the label of the reference period (or all
\* values are kept), so a recompute never finds a value both old and
\* current, and the bucket it computed is stored when it returns
CurrentBucketSurvives ==
    [][ /\ (last'.op = "get_aggregations_to_keep" /\ ~last'.raised)
           => KeepsCurrent(last', last'.agg_kind, last'.now)
        /\ \A c \in CommittedCalls(last') :
              /\ KeepsCurrent(get_aggregations_to_keep(c[2], c[3]), c[2], c[3])
              /\ NoneDeletedAndUpdated(store[c[1]][c[2]],
                                       get_aggregations_to_keep(c[2], c[3]), c[2], c[3])
              /\ get_truncated_value(c[3], c[2]) \in Labels(store'[c[1]][c[2]])
      ]_vars

\* C20 witness: a tick has deleted old values and updated current buckets,
\* and every bucket it computed is stored
ComputedBucketsStored ==
    /\ last.op = "tick" /\ ~last.raised
    /\ last.deletes > 0 /\ last.updates > 0
    /\ \A c \in Range(last.calls) :
          get_truncated_value(c[3], c[2]) \in Labels(store[c[1]][c[2]])

====
